---- MODULE Spec2Model ----
(***************************************************************************)
(* Model of the portfolio-tracker client: the authentication session       *)
(* (AuthProvider: restore on mount, login, register, logout), the durable  *)
(* storage it reads and writes, and what a ProtectedRoute renders; the     *)
(* holdings table (HoldingsTable: enrichment and ordering of the holdings  *)
(* list) and the dashboard's portfolio summary.                            *)
(*                                                                         *)
(* JavaScript values are encoded uniformly:                                *)
(*   - a nullable value is a sequence of length <= 1: None is null or      *)
(*     undefined, Some(x) is the value x;                                  *)
(*   - a JSON scalar is a tagged pair: Str(s) a string, JSNull the         *)
(*     literal null;                                                       *)
(*   - an object is a record of JSON scalars;                              *)
(*   - a text (the content of a storage entry) is a sequence of tokens,    *)
(*     a token being a JSON scalar, a punctuation mark or a bare word;     *)
(*   - a number is [m, e] for m * 2^e with m odd (0 is [0, 0]), every      *)
(*     arithmetic result rounded to nearest, ties to even, at Precision    *)
(*     significant bits; NaN and the infinities have m = 0 and e # 0.      *)
(***************************************************************************)
EXTENDS Integers, Sequences, FiniteSets, TLC

VARIABLES
    tokenStore,    \* storage entry of the credential: None or Some(string)
    userStore,     \* storage entry STORAGE_KEYS.USER: None or Some(text)
    user,          \* React state `user`: None or Some(AuthUser)
    isLoading,     \* React state `isLoading`
    restoreRuns,   \* how often the mount effect ran in this process
    pending,       \* gateway requests in flight: slot -> "idle" | "login" | "register"
    location,      \* the router's current location
    effects,       \* what the last handler step emitted, in order
    last,          \* history: the last handler step and its gateway outcome
    lastLogin      \* history: identity of the latest successful login whose
                   \* storage writes nothing has overwritten since

vars == <<tokenStore, userStore, user, isLoading, restoreRuns, pending,
          location, effects, last, lastLogin>>

VARIABLES
    holdings,          \* HoldingsTable prop `holdings` (the dashboard's query data)
    sortField,         \* React state `sortField`
    sortDirection,     \* React state `sortDirection`
    enrichedHoldings,  \* memo cell of the enrichment
    sortedHoldings,    \* memo cell of the ordering
    summary            \* memo cell of the dashboard's portfolio summary

hvars == <<holdings, sortField, sortDirection, enrichedHoldings,
           sortedHoldings, summary>>

VARIABLES
    queries,           \* the query cache: query key -> the query's state
    mutation,          \* the mutations in flight: slot -> hook and variables
    clast,             \* history: the last step on the cache
    dialog             \* AddTransactionDialog: React state and the submission's position

cvars == <<queries, mutation, clast>>

dvars == <<dialog>>

allVars == <<vars, hvars, cvars, dvars>>

-----------------------------------------------------------------------------
(* Bounds *)

MaxInFlight == 2

\* the longest holdings list
MaxHoldings == 3

\* significant bits a number carries (an ECMAScript number carries 53)
Precision == 11

\* HTTP requests outstanding
MaxRequests == 2

Slots == 1..MaxInFlight

-----------------------------------------------------------------------------
(* JavaScript values *)

None == <<>>

Some(x) == <<x>>

Str(s) == <<"str", s>>

JSNull == <<"null">>

Punct(c) == <<"punct", c>>

Word(w) == <<"word", w>>

\* a nullable string is truthy when it is present and not the empty string
TruthyString(m) == m # None /\ m[1] # ""

\* a nullable text is truthy when it is present and not the empty text
TruthyText(m) == m # None /\ Len(m[1]) > 0

-----------------------------------------------------------------------------
(* The identities and credentials the gateway can return *)

AuthUsers ==
    { [id |-> Str("u1"), email |-> Str("ann@example.com")],
      [id |-> Str("u1"), email |-> Str("ann@example.com"), fullName |-> JSNull],
      [id |-> Str("u2"), email |-> Str("bea@example.com"), fullName |-> Str("Bea")] }

Tokens == {"tok123", "tok456"}

AuthResponses == [ok : {TRUE}, token : Tokens, user : AuthUsers]

GatewayErrors == [ok : {FALSE}, message : {None, Some("Request failed")}]

Outcomes == AuthResponses \cup GatewayErrors

Routes == {"ROUTES.LOGIN", "ROUTES.REGISTER", "ROUTES.DASHBOARD"}

-----------------------------------------------------------------------------
(* JSON.stringify and JSON.parse on identities *)

JSONstringify(u) ==
    <<Punct("{"), Str("id"), Punct(":"), u.id,
      Punct(","), Str("email"), Punct(":"), u.email>>
    \o (IF "fullName" \in DOMAIN u
          THEN <<Punct(","), Str("fullName"), Punct(":"), u.fullName>>
          ELSE <<>>)
    \o <<Punct("}")>>

IsScalar(t) == t[1] \in {"str", "null"}

\* the members of an object text: the tokens between the braces, in groups
\* key : value separated by commas
MemberCount(inner) == (Len(inner) + 1) \div 4

MembersWellFormed(inner) ==
    /\ (Len(inner) + 1) % 4 = 0
    /\ \A i \in 0..(MemberCount(inner) - 1) :
          /\ inner[4 * i + 1][1] = "str"
          /\ inner[4 * i + 2] = Punct(":")
          /\ IsScalar(inner[4 * i + 3])
          /\ (4 * i + 4 <= Len(inner) => inner[4 * i + 4] = Punct(","))

ObjectOf(inner) ==
    LET n == MemberCount(inner)
        keys == { inner[4 * i + 1][2] : i \in 0..(n - 1) }
        lastOf(k) == CHOOSE i \in 0..(n - 1) :
                        /\ inner[4 * i + 1][2] = k
                        /\ \A j \in 0..(n - 1) : inner[4 * j + 1][2] = k => j <= i
    IN  [k \in keys |-> inner[4 * lastOf(k) + 3]]

\* [ok |-> FALSE] is a SyntaxError thrown; value is None for the literal null
JSONparse(text) ==
    IF text = <<JSNull>>
      THEN [ok |-> TRUE, value |-> None]
    ELSE IF /\ Len(text) >= 2
            /\ text[1] = Punct("{")
            /\ text[Len(text)] = Punct("}")
            /\ (Len(text) = 2 \/ MembersWellFormed(SubSeq(text, 2, Len(text) - 1)))
      THEN [ok |-> TRUE,
            value |-> Some(IF Len(text) = 2
                             THEN [k \in {} |-> JSNull]
                             ELSE ObjectOf(SubSeq(text, 2, Len(text) - 1)))]
    ELSE [ok |-> FALSE, value |-> None]

\* texts a storage entry can hold when the process starts
NotJson == <<Punct("{"), Word("not"), Word("json")>>

StoredTexts == {<<>>, NotJson, <<JSNull>>} \cup { JSONstringify(u) : u \in AuthUsers }

-----------------------------------------------------------------------------
(* What a handler emits *)

Toast(variant, title, description) ==
    [kind |-> "toast", variant |-> variant, title |-> title,
     description |-> description]

Navigate(to) == [kind |-> "navigate", to |-> to]

\* the promise returned to the caller is rejected with this gateway error
Throw(error) == [kind |-> "throw", error |-> error]

ConsoleError == [kind |-> "console.error"]

\* error?.message || fallback
MessageOr(error, fallback) ==
    IF TruthyString(error.message) THEN Str(error.message[1]) ELSE Str(fallback)

-----------------------------------------------------------------------------
(* The session: the two storage entries and the provider's React state *)

Session ==
    [tokenStore |-> tokenStore, userStore |-> userStore,
     user |-> user, isLoading |-> isLoading]

\* the credential helpers of the HTTP client keep the credential in its
\* storage entry
getAuthToken(s) == s.tokenStore

setAuthToken(s, token) == [s EXCEPT !.tokenStore = Some(token)]

clearAuthToken(s) == [s EXCEPT !.tokenStore = None]

\* mutant: the flag read from the stored credential, as the HTTP client's
\* own helper reads it
isAuthenticated_FromToken == TruthyString(tokenStore)

\* !!user
isAuthenticated == user # None

\* mutant: the restore that does not look at the credential
initializeAuth_IgnoresToken(s) ==
    LET savedUser == s.userStore
        parsed == JSONparse(savedUser[1])
    IN  IF TruthyText(savedUser)
          THEN IF parsed.ok
                 THEN [s |-> [s EXCEPT !.user = parsed.value,
                                       !.isLoading = FALSE],
                       effects |-> <<>>]
                 ELSE [s |-> [clearAuthToken(s) EXCEPT !.userStore = None,
                                                       !.isLoading = FALSE],
                       effects |-> <<ConsoleError>>]
          ELSE [s |-> [s EXCEPT !.isLoading = FALSE], effects |-> <<>>]

\* mutant: the restore without its catch block
initializeAuth_NoCatch(s) ==
    LET token == getAuthToken(s)
        savedUser == s.userStore
        parsed == JSONparse(savedUser[1])
    IN  IF TruthyString(token) /\ TruthyText(savedUser)
          THEN IF parsed.ok
                 THEN [s |-> [s EXCEPT !.user = parsed.value,
                                       !.isLoading = FALSE],
                       effects |-> <<>>]
                 ELSE [s |-> [s EXCEPT !.isLoading = FALSE],
                       effects |-> <<Throw([ok |-> FALSE, message |-> Some("SyntaxError")])>>]
          ELSE [s |-> [s EXCEPT !.isLoading = FALSE], effects |-> <<>>]

\* the mount effect: try { restore } catch { clear } finally { loaded }
initializeAuth(s) ==
    LET token == getAuthToken(s)
        savedUser == s.userStore
        parsed == JSONparse(savedUser[1])
    IN  IF TruthyString(token) /\ TruthyText(savedUser)
          THEN IF parsed.ok
                 THEN [s |-> [s EXCEPT !.user = parsed.value,
                                       !.isLoading = FALSE],
                       effects |-> <<>>]
                 ELSE [s |-> [clearAuthToken(s) EXCEPT !.userStore = None,
                                                       !.isLoading = FALSE],
                       effects |-> <<ConsoleError>>]
          ELSE [s |-> [s EXCEPT !.isLoading = FALSE], effects |-> <<>>]

\* mutant: the login that forgets setUser
login_NoSetUser(s, o) ==
    IF o.ok
      THEN [s |-> [setAuthToken(s, o.token) EXCEPT
                      !.userStore = Some(JSONstringify(o.user)),
                      !.isLoading = FALSE],
            effects |-> <<Toast("default", "Welcome back!", o.user.email),
                          Navigate("ROUTES.DASHBOARD")>>]
      ELSE [s |-> [s EXCEPT !.isLoading = FALSE],
            effects |-> <<Toast("destructive", "Login Failed",
                                MessageOr(o, "Invalid email or password")),
                          Throw(o)>>]

\* mutant: the login that does not rethrow
login_SwallowsError(s, o) ==
    IF o.ok
      THEN [s |-> [setAuthToken(s, o.token) EXCEPT
                      !.userStore = Some(JSONstringify(o.user)),
                      !.user = Some(o.user),
                      !.isLoading = FALSE],
            effects |-> <<Toast("default", "Welcome back!", o.user.email),
                          Navigate("ROUTES.DASHBOARD")>>]
      ELSE [s |-> [s EXCEPT !.isLoading = FALSE],
            effects |-> <<Toast("destructive", "Login Failed",
                                MessageOr(o, "Invalid email or password"))>>]

\* mutant: the login that stores the credential but not the identity
login_SkipsUserStore(s, o) ==
    IF o.ok
      THEN [s |-> [setAuthToken(s, o.token) EXCEPT
                      !.user = Some(o.user),
                      !.isLoading = FALSE],
            effects |-> <<Toast("default", "Welcome back!", o.user.email),
                          Navigate("ROUTES.DASHBOARD")>>]
      ELSE [s |-> [s EXCEPT !.isLoading = FALSE],
            effects |-> <<Toast("destructive", "Login Failed",
                                MessageOr(o, "Invalid email or password")),
                          Throw(o)>>]

\* login, from the point where the awaited gateway call settles with o
login(s, o) ==
    IF o.ok
      THEN [s |-> [setAuthToken(s, o.token) EXCEPT
                      !.userStore = Some(JSONstringify(o.user)),
                      !.user = Some(o.user),
                      !.isLoading = FALSE],
            effects |-> <<Toast("default", "Welcome back!", o.user.email),
                          Navigate("ROUTES.DASHBOARD")>>]
      ELSE [s |-> [s EXCEPT !.isLoading = FALSE],
            effects |-> <<Toast("destructive", "Login Failed",
                                MessageOr(o, "Invalid email or password")),
                          Throw(o)>>]

\* mutant: the register that does not navigate
register_NoNavigate(s, o) ==
    IF o.ok
      THEN [s |-> [setAuthToken(s, o.token) EXCEPT
                      !.userStore = Some(JSONstringify(o.user)),
                      !.user = Some(o.user),
                      !.isLoading = FALSE],
            effects |-> <<Toast("default", "Account Created!", o.user.email)>>]
      ELSE [s |-> [s EXCEPT !.isLoading = FALSE],
            effects |-> <<Toast("destructive", "Registration Failed",
                                MessageOr(o, "Failed to create account")),
                          Throw(o)>>]

\* register, from the point where the awaited gateway call settles with o
register(s, o) ==
    IF o.ok
      THEN [s |-> [setAuthToken(s, o.token) EXCEPT
                      !.userStore = Some(JSONstringify(o.user)),
                      !.user = Some(o.user),
                      !.isLoading = FALSE],
            effects |-> <<Toast("default", "Account Created!", o.user.email),
                          Navigate("ROUTES.DASHBOARD")>>]
      ELSE [s |-> [s EXCEPT !.isLoading = FALSE],
            effects |-> <<Toast("destructive", "Registration Failed",
                                MessageOr(o, "Failed to create account")),
                          Throw(o)>>]

\* the gateway's logout: a promise that is already resolved
apiLogout == [ok |-> TRUE]

\* mutant: the logout that leaves the identity entry in storage
logout_KeepsUserEntry(s) ==
    [s |-> [clearAuthToken(s) EXCEPT !.user = None],
     effects |-> <<Toast("default", "Logged Out",
                         Str("You have been logged out successfully.")),
                   Navigate("ROUTES.LOGIN")>>]

logout(s) ==
    [s |-> [clearAuthToken(s) EXCEPT !.userStore = None, !.user = None],
     effects |-> <<Toast("default", "Logged Out",
                         Str("You have been logged out successfully.")),
                   Navigate("ROUTES.LOGIN")>>]

\* mutant: the route that looks at the flag before the loading state
ProtectedRoute_ChecksAuthFirst ==
    IF ~isAuthenticated
      THEN [kind |-> "Navigate", to |-> "ROUTES.LOGIN", from |-> location,
            replace |-> TRUE]
    ELSE IF isLoading
      THEN [kind |-> "LoadingPage"]
    ELSE [kind |-> "children"]

\* what a ProtectedRoute renders in the current state
ProtectedRoute ==
    IF isLoading
      THEN [kind |-> "LoadingPage"]
    ELSE IF ~isAuthenticated
      THEN [kind |-> "Navigate", to |-> "ROUTES.LOGIN", from |-> location,
            replace |-> TRUE]
    ELSE [kind |-> "children"]

-----------------------------------------------------------------------------
(* Steps *)

\* a handler's result r becomes the next state
Commit(r) ==
    /\ tokenStore' = r.s.tokenStore
    /\ userStore' = r.s.userStore
    /\ user' = r.s.user
    /\ isLoading' = r.s.isLoading
    /\ effects' = r.effects
    /\ location' = IF \E i \in 1..Len(r.effects) : r.effects[i].kind = "navigate"
                     THEN (r.effects[CHOOSE i \in 1..Len(r.effects) :
                              /\ r.effects[i].kind = "navigate"
                              /\ \A j \in 1..Len(r.effects) :
                                    r.effects[j].kind = "navigate" => j <= i]).to
                     ELSE location

\* history: which login's storage writes are still in place
Remember(r, op, o) ==
    lastLogin' = IF op = "login" /\ o.ok
                   THEN Some(o.user)
                 ELSE IF r.s.tokenStore = tokenStore /\ r.s.userStore = userStore
                   THEN lastLogin
                 ELSE None

FreeSlot(i) == pending[i] = "idle" /\ \A j \in Slots : pending[j] = "idle" => i <= j

\* while the session is looked at alone no dashboard is on screen
NoDashboard ==
    /\ holdings = <<>>
    /\ sortField = "symbol"
    /\ sortDirection = "asc"
    /\ enrichedHoldings = <<>>
    /\ sortedHoldings = <<>>
    /\ summary = <<>>

\* while the query cache is not looked at it is empty and idle
NoCache ==
    /\ queries = <<>>
    /\ mutation = <<>>
    /\ clast = <<>>

\* while the dialog is not looked at it is closed
NoDialog == dialog = <<>>

Init ==
    /\ NoDashboard
    /\ NoCache
    /\ NoDialog
    /\ tokenStore \in {None, Some("")} \cup { Some(t) : t \in Tokens }
    /\ userStore \in {None} \cup { Some(t) : t \in StoredTexts }
    /\ user = None
    /\ isLoading = FALSE
    /\ restoreRuns = 0
    /\ pending = [i \in Slots |-> "idle"]
    /\ location \in Routes
    /\ effects = <<>>
    /\ last = [op |-> "create"]
    /\ lastLogin = None

InitializeAuth ==
    /\ restoreRuns = 0
    /\ LET r == initializeAuth(Session)
       IN  Commit(r) /\ Remember(r, "restore", apiLogout)
    /\ restoreRuns' = restoreRuns + 1
    /\ last' = [op |-> "restore"]
    /\ UNCHANGED pending

LoginStart ==
    /\ restoreRuns > 0
    /\ \E i \in Slots :
          /\ FreeSlot(i)
          /\ pending' = [pending EXCEPT ![i] = "login"]
    /\ isLoading' = TRUE
    /\ effects' = <<>>
    /\ last' = [op |-> "loginStart"]
    /\ UNCHANGED <<tokenStore, userStore, user, restoreRuns, location, lastLogin>>

LoginSettle ==
    \E i \in Slots, o \in Outcomes :
       /\ pending[i] = "login"
       /\ pending' = [pending EXCEPT ![i] = "idle"]
       /\ LET r == login(Session, o)
          IN  Commit(r) /\ Remember(r, "login", o)
       /\ last' = [op |-> "login", outcome |-> o]
       /\ UNCHANGED restoreRuns

RegisterStart ==
    /\ restoreRuns > 0
    /\ \E i \in Slots :
          /\ FreeSlot(i)
          /\ pending' = [pending EXCEPT ![i] = "register"]
    /\ isLoading' = TRUE
    /\ effects' = <<>>
    /\ last' = [op |-> "registerStart"]
    /\ UNCHANGED <<tokenStore, userStore, user, restoreRuns, location, lastLogin>>

RegisterSettle ==
    \E i \in Slots, o \in Outcomes :
       /\ pending[i] = "register"
       /\ pending' = [pending EXCEPT ![i] = "idle"]
       /\ LET r == register(Session, o)
          IN  Commit(r) /\ Remember(r, "register", o)
       /\ last' = [op |-> "register", outcome |-> o]
       /\ UNCHANGED restoreRuns

Logout ==
    /\ restoreRuns > 0
    /\ LET r == logout(Session)
       IN  Commit(r) /\ Remember(r, "logout", apiLogout)
    /\ last' = [op |-> "logout"]
    /\ UNCHANGED <<restoreRuns, pending>>

\* a new process start over the same storage: the provider is created again
Reload ==
    /\ restoreRuns > 0
    /\ user' = None
    /\ isLoading' = FALSE
    /\ restoreRuns' = 0
    /\ pending' = [i \in Slots |-> "idle"]
    /\ location' \in Routes
    /\ effects' = <<>>
    /\ last' = [op |-> "create"]
    /\ UNCHANGED <<tokenStore, userStore, lastLogin>>

Next ==
    \/ InitializeAuth /\ UNCHANGED <<hvars, cvars, dvars>>
    \/ LoginStart /\ UNCHANGED <<hvars, cvars, dvars>>
    \/ LoginSettle /\ UNCHANGED <<hvars, cvars, dvars>>
    \/ RegisterStart /\ UNCHANGED <<hvars, cvars, dvars>>
    \/ RegisterSettle /\ UNCHANGED <<hvars, cvars, dvars>>
    \/ Logout /\ UNCHANGED <<hvars, cvars, dvars>>
    \/ Reload /\ UNCHANGED <<hvars, cvars, dvars>>

Spec == Init /\ [][Next]_allVars

-----------------------------------------------------------------------------
(* Session restore *)

Parses(m) == m # None /\ JSONparse(m[1]).ok

RestoreStep == restoreRuns = 0 /\ restoreRuns' = 1

\* C1: restore ends in an authenticated session only if both a stored
\* credential and a stored identity are present and the identity text parses;
\* if either is missing (an empty entry counts as missing), or the identity
\* does not parse, the session after restore is unauthenticated.
C1_RestoreAuthenticatedOnlyIfBoth ==
    [][RestoreStep =>
          /\ (user' # None => tokenStore # None /\ userStore # None /\ Parses(userStore))
          /\ (~TruthyString(tokenStore) \/ ~TruthyText(userStore) \/ ~Parses(userStore)
                => user' = None)]_vars

C1_Witness ==
    /\ last.op = "restore"
    /\ user # None
    /\ tokenStore # None
    /\ Parses(userStore)

C3_LoadingUntilRestored ==
    /\ restoreRuns <= 1
    /\ (restoreRuns = 0 => isLoading = TRUE)

\* C4: in every state in which restore has not yet completed, a ProtectedRoute
\* renders the loading indicator, neither the redirect nor its children.
C4_LoadingPageUntilRestored ==
    restoreRuns = 0 => ProtectedRoute.kind = "LoadingPage"

-----------------------------------------------------------------------------
(* Login, register, logout *)

Navigations(es) == SelectSeq(es, LAMBDA e : e.kind = "navigate")

Thrown(es) == SelectSeq(es, LAMBDA e : e.kind = "throw")

\* C5: in the state a successful login leaves, the returned credential is
\* stored, the stored identity text reads back as the returned identity and
\* the session identity is the returned identity, all written by that one
\* step, whose last effect is the navigation to the dashboard; a failing
\* login navigates nowhere.
C5_LoginSuccessWritesAllThenDashboard ==
    last.op = "login" =>
       IF last.outcome.ok
         THEN /\ tokenStore = Some(last.outcome.token)
              /\ Parses(userStore)
              /\ JSONparse(userStore[1]).value = Some(last.outcome.user)
              /\ user = Some(last.outcome.user)
              /\ Navigations(effects) = <<Navigate("ROUTES.DASHBOARD")>>
              /\ effects[Len(effects)] = Navigate("ROUTES.DASHBOARD")
              /\ location = "ROUTES.DASHBOARD"
         ELSE Navigations(effects) = <<>>

C5_Witness ==
    /\ last.op = "login"
    /\ last.outcome.ok
    /\ user = Some(last.outcome.user)
    /\ location = "ROUTES.DASHBOARD"

\* C6: a failing login leaves the session identity and both storage entries as
\* they were (an unauthenticated session stays unauthenticated), emits one
\* destructive notification and then rejects with the gateway's error (the
\* notification first, the same error).
C6_LoginFailureNotifiesThenPropagates ==
    [][last'.op = "login" /\ ~last'.outcome.ok =>
          /\ UNCHANGED <<tokenStore, userStore, user>>
          /\ (user = None => user' = None)
          /\ Len(effects') = 2
          /\ effects'[1].kind = "toast"
          /\ effects'[1].variant = "destructive"
          /\ effects'[2] = Throw(last'.outcome)]_vars

C6_Witness ==
    /\ last.op = "login"
    /\ ~last.outcome.ok
    /\ user = None
    /\ tokenStore = None
    /\ Thrown(effects) = <<Throw(last.outcome)>>

\* the part of a handler's result the contract of login and register speaks of
Contract(r) ==
    [s |-> r.s, navigations |-> Navigations(r.effects), thrown |-> Thrown(r.effects)]

\* C7: whatever state register starts from and whatever the gateway answers,
\* the step register takes has the storage writes, session state, navigation
\* and error propagation that login has from that state for that answer.
C7_RegisterSameContractAsLogin ==
    [][last'.op = "register" =>
          [s |-> Session', navigations |-> Navigations(effects'),
           thrown |-> Thrown(effects')]
             = Contract(login(Session, last'.outcome))]_vars

C7_Witness ==
    /\ last.op = "register"
    /\ last.outcome.ok
    /\ user = Some(last.outcome.user)
    /\ tokenStore = Some(last.outcome.token)
    /\ location = "ROUTES.DASHBOARD"

\* C8: from any state, logout leaves both storage entries absent and the
\* session unauthenticated, emits a notification and navigates to the login
\* view; a second logout leaves the same session and storage.
C8_LogoutClearsAndIsIdempotent ==
    [][last'.op = "logout" =>
          /\ tokenStore' = None
          /\ userStore' = None
          /\ user' = None
          /\ Len(effects') = 2
          /\ effects'[1].kind = "toast"
          /\ effects'[2] = Navigate("ROUTES.LOGIN")
          /\ location' = "ROUTES.LOGIN"
          /\ logout(Session').s = Session'
          /\ logout(logout(Session).s).s = logout(Session).s]_vars

C8_Witness ==
    /\ last.op = "logout"
    /\ user = None
    /\ tokenStore = None
    /\ userStore = None
    /\ location = "ROUTES.LOGIN"

\* C9: in every state after restore, login, register and logout steps, the
\* session identity is present if and only if the credential is present.
C9_IdentityIffCredential ==
    restoreRuns > 0 => (user # None <=> TruthyString(tokenStore))

\* C10: after a login succeeded with identity U and nothing has written the
\* storage since, a restore in a new process yields an authenticated session
\* whose identity is U.
C10_LoginRestoreRoundTrip ==
    last.op = "restore" /\ lastLogin # None => user = lastLogin

C10_Witness ==
    /\ last.op = "restore"
    /\ lastLogin # None
    /\ user = lastLogin
    /\ "fullName" \in DOMAIN user[1]

-----------------------------------------------------------------------------
(* ECMAScript numbers: binary floating point, round to nearest, ties to even. *)
(* A number is [m, e] standing for m * 2^e, with m odd, or m = 0 and e = 0;   *)
(* the exponent range is not bounded.                                         *)

RECURSIVE Pow2(_)
Pow2(n) == IF n <= 0 THEN 1 ELSE 2 * Pow2(n - 1)

RECURSIVE BitLen(_)
BitLen(n) == IF n <= 0 THEN 0 ELSE 1 + BitLen(n \div 2)

Abs(n) == IF n < 0 THEN -n ELSE n

Sgn(n) == IF n < 0 THEN -1 ELSE IF n > 0 THEN 1 ELSE 0

RECURSIVE Normalize(_, _)
Normalize(m, e) ==
    IF m = 0 THEN [m |-> 0, e |-> 0]
    ELSE IF m % 2 = 0 THEN Normalize(m \div 2, e + 1)
    ELSE [m |-> m, e |-> e]

\* the natural n with a remainder flag, rounded to Precision significant
\* bits: <<q, k>> stands for q * 2^k
RoundNat(n, sticky) ==
    LET b == BitLen(n)
        k == b - Precision
        q == n \div Pow2(k)
        r == n % Pow2(k)
        half == Pow2(k - 1)
        up == r > half \/ (r = half /\ (sticky \/ q % 2 = 1))
    IN  IF b <= Precision THEN <<n, 0>>
        ELSE <<IF up THEN q + 1 ELSE q, k>>

\* the number nearest to n * 2^e
Rounded(n, e) ==
    LET r == RoundNat(Abs(n), FALSE)
    IN  Normalize(Sgn(n) * r[1], e + r[2])

Num(n) == Rounded(n, 0)

Zero == [m |-> 0, e |-> 0]

\* the values that are no finite number, written with m = 0 and e # 0
NaN == [m |-> 0, e |-> 1]

PosInfinity == [m |-> 0, e |-> 2]

NegInfinity == [m |-> 0, e |-> -2]

IsNaN(a) == a = NaN

IsInfinite(a) == a = PosInfinity \/ a = NegInfinity

IsFinite(a) == a.m # 0 \/ a.e = 0

\* -1, 0 or 1; 0 for NaN
SignOf(a) ==
    IF a.m # 0 THEN Sgn(a.m)
    ELSE IF a = PosInfinity THEN 1
    ELSE IF a = NegInfinity THEN -1
    ELSE 0

Signed(sign, a) == IF sign < 0 THEN [m |-> -a.m, e |-> -a.e] ELSE a

Neg(a) ==
    IF IsNaN(a) THEN NaN
    ELSE IF IsInfinite(a) THEN Signed(-1, a)
    ELSE [m |-> -a.m, e |-> a.e]

\* a + b for finite a and b; an operand below an eighth of the other's last
\* place cannot change the rounded sum
FiniteSum(a, b) ==
    LET hi == IF a.e < b.e THEN b ELSE a
        lo == IF a.e < b.e THEN a ELSE b
        d == hi.e - lo.e
    IN  IF lo.m = 0 THEN hi
        ELSE IF hi.m = 0 THEN lo
        ELSE IF BitLen(Abs(hi.m)) + d > 2 * Precision + 2 THEN hi
        ELSE Rounded(hi.m * Pow2(d) + lo.m, lo.e)

\* a + b
fadd(a, b) ==
    IF IsNaN(a) \/ IsNaN(b) THEN NaN
    ELSE IF IsInfinite(a) THEN (IF IsInfinite(b) /\ b # a THEN NaN ELSE a)
    ELSE IF IsInfinite(b) THEN b
    ELSE FiniteSum(a, b)

\* a - b
fsub(a, b) == fadd(a, Neg(b))

\* a * b
fmul(a, b) ==
    IF IsNaN(a) \/ IsNaN(b) THEN NaN
    ELSE IF IsInfinite(a) \/ IsInfinite(b)
      THEN (IF SignOf(a) * SignOf(b) = 0 THEN NaN
            ELSE Signed(SignOf(a) * SignOf(b), PosInfinity))
    ELSE Rounded(a.m * b.m, a.e + b.e)

\* a / b for finite a # 0 and b # 0
FiniteQuotient(a, b) ==
    LET s == 2 * Precision + 2 - BitLen(Abs(a.m))
        n == Abs(a.m) * Pow2(s)
        d == Abs(b.m)
        r == RoundNat(n \div d, n % d # 0)
    IN  Normalize(Sgn(a.m) * Sgn(b.m) * r[1], a.e - s - b.e + r[2])

\* a / b
fdiv(a, b) ==
    IF IsNaN(a) \/ IsNaN(b) THEN NaN
    ELSE IF IsInfinite(a)
      THEN (IF IsInfinite(b) THEN NaN
            ELSE Signed(SignOf(a) * (IF SignOf(b) < 0 THEN -1 ELSE 1), PosInfinity))
    ELSE IF IsInfinite(b) THEN Zero
    ELSE IF b = Zero
      THEN (IF a = Zero THEN NaN ELSE Signed(SignOf(a), PosInfinity))
    ELSE IF a = Zero THEN Zero
    ELSE FiniteQuotient(a, b)

\* a > 0
IsPositive(a) == SignOf(a) > 0

\* a < b, decided on the exact values
NumLess(a, b) ==
    IF IsNaN(a) \/ IsNaN(b) THEN FALSE
    ELSE IF IsInfinite(a) \/ IsInfinite(b) THEN SignOf(a) < SignOf(b)
    ELSE LET e == IF a.e < b.e THEN a.e ELSE b.e
         IN  a.m * Pow2(a.e - e) < b.m * Pow2(b.e - e)

\* x || 0 on a nullable number: null, undefined, 0 and NaN give 0
OrZero(x) == IF x = None \/ x[1] = Zero \/ x[1] = NaN THEN Zero ELSE x[1]

-----------------------------------------------------------------------------
(* Holdings: the records the gateway returns *)

Holding(id, symbol, shares, cost, price) ==
    [id |-> id, totalShares |-> shares, averageCost |-> cost,
     security |-> [symbol |-> symbol, currentPrice |-> price]]

\* a price large enough for sums with it to round: 2^(Precision+1) - 2
BigPrice == Rounded(Pow2(Precision) - 1, 1)

\* h3 lacks cost and price, h4 is a position just opened (no shares yet);
\* h1/h3 agree on shares, h1/h4 on price, h3/h4 on cost, value and gain
HoldingPool ==
    { Holding("h1", "AAPL", Num(10), Some(Num(100)), Some(Num(150))),
      Holding("h2", "TSLA", Num(5), Some(Num(200)), Some(Num(180))),
      Holding("h3", "MSFT", Num(10), None, None),
      Holding("h4", "NVDA", Zero, Some(Zero), Some(Num(150))),
      Holding("h5", "GOOG", Num(1), Some(Num(1)), Some(BigPrice)) }

\* lists of distinct holdings
HoldingLists ==
    { l \in UNION { [1..n -> HoldingPool] : n \in 0..MaxHoldings } :
         \A i, j \in DOMAIN l : i # j => l[i].id # l[j].id }

SortFields == {"symbol", "shares", "price", "cost", "value", "gain", "gainPercent"}

SortDirections == {"asc", "desc"}

\* the collation order of the symbols
SymbolRank(symbol) ==
    CASE symbol = "AAPL" -> 1
      [] symbol = "GOOG" -> 2
      [] symbol = "MSFT" -> 3
      [] symbol = "NVDA" -> 4
      [] symbol = "TSLA" -> 5

\* a.localeCompare(b)
localeCompare(a, b) == Sgn(SymbolRank(a) - SymbolRank(b))

-----------------------------------------------------------------------------
(* HoldingsTable: enrichment *)

DerivedFields ==
    {"currentPrice", "marketValue", "bookValue", "unrealizedGain",
     "unrealizedGainPercent"}

\* mutant: the gain with its operands exchanged
enrichHolding_GainSignFlipped(holding) ==
    LET currentPrice == OrZero(holding.security.currentPrice)
        marketValue == fmul(holding.totalShares, currentPrice)
        bookValue == fmul(holding.totalShares, OrZero(holding.averageCost))
        unrealizedGain == fsub(bookValue, marketValue)
        unrealizedGainPercent ==
            IF IsPositive(bookValue) THEN fdiv(unrealizedGain, bookValue) ELSE Zero
    IN  [k \in DOMAIN holding \cup DerivedFields |->
            CASE k = "currentPrice" -> currentPrice
              [] k = "marketValue" -> marketValue
              [] k = "bookValue" -> bookValue
              [] k = "unrealizedGain" -> unrealizedGain
              [] k = "unrealizedGainPercent" -> unrealizedGainPercent
              [] OTHER -> holding[k]]

\* mutant: the percent without the guard on the divisor
enrichHolding_UnguardedPercent(holding) ==
    LET currentPrice == OrZero(holding.security.currentPrice)
        marketValue == fmul(holding.totalShares, currentPrice)
        bookValue == fmul(holding.totalShares, OrZero(holding.averageCost))
        unrealizedGain == fsub(marketValue, bookValue)
        unrealizedGainPercent ==
            fdiv(unrealizedGain, bookValue)
    IN  [k \in DOMAIN holding \cup DerivedFields |->
            CASE k = "currentPrice" -> currentPrice
              [] k = "marketValue" -> marketValue
              [] k = "bookValue" -> bookValue
              [] k = "unrealizedGain" -> unrealizedGain
              [] k = "unrealizedGainPercent" -> unrealizedGainPercent
              [] OTHER -> holding[k]]

\* mutant: the price read without its default (undefined in arithmetic is NaN)
enrichHolding_NoPriceDefault(holding) ==
    LET currentPrice == IF holding.security.currentPrice = None
                          THEN NaN ELSE holding.security.currentPrice[1]
        marketValue == fmul(holding.totalShares, currentPrice)
        bookValue == fmul(holding.totalShares, OrZero(holding.averageCost))
        unrealizedGain == fsub(marketValue, bookValue)
        unrealizedGainPercent ==
            IF IsPositive(bookValue) THEN fdiv(unrealizedGain, bookValue) ELSE Zero
    IN  [k \in DOMAIN holding \cup DerivedFields |->
            CASE k = "currentPrice" -> currentPrice
              [] k = "marketValue" -> marketValue
              [] k = "bookValue" -> bookValue
              [] k = "unrealizedGain" -> unrealizedGain
              [] k = "unrealizedGainPercent" -> unrealizedGainPercent
              [] OTHER -> holding[k]]

\* the callback of holdings.map: { ...holding, and the five derived fields }
enrichHolding(holding) ==
    LET currentPrice == OrZero(holding.security.currentPrice)
        marketValue == fmul(holding.totalShares, currentPrice)
        bookValue == fmul(holding.totalShares, OrZero(holding.averageCost))
        unrealizedGain == fsub(marketValue, bookValue)
        unrealizedGainPercent ==
            IF IsPositive(bookValue) THEN fdiv(unrealizedGain, bookValue) ELSE Zero
    IN  [k \in DOMAIN holding \cup DerivedFields |->
            CASE k = "currentPrice" -> currentPrice
              [] k = "marketValue" -> marketValue
              [] k = "bookValue" -> bookValue
              [] k = "unrealizedGain" -> unrealizedGain
              [] k = "unrealizedGainPercent" -> unrealizedGainPercent
              [] OTHER -> holding[k]]

\* the enrichment memo: the array it read, as it is afterwards, and the new
\* array it returns
enrichedHoldingsMemo(hs) ==
    [holdings |-> hs,
     enriched |-> [i \in DOMAIN hs |-> enrichHolding(hs[i])]]

-----------------------------------------------------------------------------
(* HoldingsTable: ordering *)

\* mutant: the price column ordered by the cost
SortValue_PriceReadsCost(field, x) ==
    CASE field = "symbol" -> x.security.symbol
      [] field = "shares" -> x.totalShares
      [] field = "price" -> OrZero(x.averageCost)
      [] field = "cost" -> OrZero(x.averageCost)
      [] field = "value" -> x.marketValue
      [] field = "gain" -> x.unrealizedGain
      [] field = "gainPercent" -> x.unrealizedGainPercent

\* the switch on sortField
SortValue(field, x) ==
    CASE field = "symbol" -> x.security.symbol
      [] field = "shares" -> x.totalShares
      [] field = "price" -> x.currentPrice
      [] field = "cost" -> OrZero(x.averageCost)
      [] field = "value" -> x.marketValue
      [] field = "gain" -> x.unrealizedGain
      [] field = "gainPercent" -> x.unrealizedGainPercent

\* mutant: the descending comparator with its operands not exchanged
compareHoldings_DescNotSwapped(field, direction, a, b) ==
    LET aValue == SortValue(field, a)
        bValue == SortValue(field, b)
    IN  IF field = "symbol"
          THEN IF direction = "asc"
                 THEN localeCompare(aValue, bValue)
                 ELSE localeCompare(aValue, bValue)
          ELSE IF direction = "asc"
                 THEN SignOf(fsub(aValue, bValue))
                 ELSE SignOf(fsub(aValue, bValue))

\* mutant: equal keys ordered by symbol, last first
compareHoldings_TieBreakBySymbol(field, direction, a, b) ==
    LET aValue == SortValue(field, a)
        bValue == SortValue(field, b)
        c == IF field = "symbol"
               THEN IF direction = "asc"
                      THEN localeCompare(aValue, bValue)
                      ELSE localeCompare(bValue, aValue)
               ELSE IF direction = "asc"
                      THEN SignOf(fsub(aValue, bValue))
                      ELSE SignOf(fsub(bValue, aValue))
    IN  IF c # 0 THEN c ELSE localeCompare(b.security.symbol, a.security.symbol)

\* the sign of what the comparator returns for (a, b)
compareHoldings(field, direction, a, b) ==
    LET aValue == SortValue(field, a)
        bValue == SortValue(field, b)
    IN  IF field = "symbol"
          THEN IF direction = "asc"
                 THEN localeCompare(aValue, bValue)
                 ELSE localeCompare(bValue, aValue)
          ELSE IF direction = "asc"
                 THEN SignOf(fsub(aValue, bValue))
                 ELSE SignOf(fsub(bValue, aValue))

\* x put into the ordered list after every element that does not come after it
RECURSIVE InsertOrdered(_, _, _, _)
InsertOrdered(field, direction, ordered, x) ==
    IF ordered = <<>> THEN <<x>>
    ELSE IF compareHoldings(field, direction, ordered[Len(ordered)], x) <= 0
      THEN Append(ordered, x)
    ELSE Append(InsertOrdered(field, direction,
                              SubSeq(ordered, 1, Len(ordered) - 1), x),
                ordered[Len(ordered)])

\* Array.prototype.sort with the comparator: a stable sort
RECURSIVE ArraySort(_, _, _)
ArraySort(field, direction, arr) ==
    IF arr = <<>> THEN <<>>
    ELSE InsertOrdered(field, direction,
                       ArraySort(field, direction, SubSeq(arr, 1, Len(arr) - 1)),
                       arr[Len(arr)])

\* mutant: the enriched array sorted in place, without the copy
sortedHoldingsMemo_InPlace(enriched, field, direction) ==
    [enriched |-> ArraySort(field, direction, enriched),
     sorted |-> ArraySort(field, direction, enriched)]

\* mutant: the descending rows obtained by reversing the ascending rows
sortedHoldingsMemo_DescByReverse(enriched, field, direction) ==
    [enriched |-> enriched,
     sorted |-> IF direction = "asc"
                  THEN ArraySort(field, "asc", enriched)
                  ELSE [i \in 1..Len(enriched) |->
                          ArraySort(field, "asc", enriched)[Len(enriched) + 1 - i]]]

\* the ordering memo: [...enrichedHoldings].sort(comparator) sorts a copy, so
\* the enriched array is afterwards what it was
sortedHoldingsMemo(enriched, field, direction) ==
    [enriched |-> enriched,
     sorted |-> ArraySort(field, direction, enriched)]

\* the table's rows for a holdings list and a sort state
deriveAndSort(hs, field, direction) ==
    sortedHoldingsMemo(enrichedHoldingsMemo(hs).enriched, field, direction).sorted

-----------------------------------------------------------------------------
(* DashboardPage: the portfolio summary *)

RECURSIVE TotalValue(_)
TotalValue(hs) ==
    IF hs = <<>> THEN Zero
    ELSE fadd(TotalValue(SubSeq(hs, 1, Len(hs) - 1)),
              fmul(hs[Len(hs)].totalShares, OrZero(hs[Len(hs)].security.currentPrice)))

RECURSIVE TotalCost(_)
TotalCost(hs) ==
    IF hs = <<>> THEN Zero
    ELSE fadd(TotalCost(SubSeq(hs, 1, Len(hs) - 1)),
              fmul(hs[Len(hs)].totalShares, OrZero(hs[Len(hs)].averageCost)))

\* mutant: the gain taken as a share of the value instead of the cost
summaryMemo_PercentOfValue(hs) ==
    LET totalValue == TotalValue(hs)
        totalCost == TotalCost(hs)
        totalGain == fsub(totalValue, totalCost)
    IN  IF Len(hs) = 0
          THEN [totalValue |-> Zero, totalCost |-> Zero, totalGain |-> Zero,
                totalGainPercent |-> Zero]
          ELSE [totalValue |-> totalValue, totalCost |-> totalCost,
                totalGain |-> totalGain,
                totalGainPercent |->
                    IF IsPositive(totalCost) THEN fdiv(totalGain, totalValue) ELSE Zero]

summaryMemo(hs) ==
    LET totalValue == TotalValue(hs)
        totalCost == TotalCost(hs)
        totalGain == fsub(totalValue, totalCost)
    IN  IF Len(hs) = 0
          THEN [totalValue |-> Zero, totalCost |-> Zero, totalGain |-> Zero,
                totalGainPercent |-> Zero]
          ELSE [totalValue |-> totalValue, totalCost |-> totalCost,
                totalGain |-> totalGain,
                totalGainPercent |->
                    IF IsPositive(totalCost) THEN fdiv(totalGain, totalCost) ELSE Zero]

-----------------------------------------------------------------------------
(* The dashboard as a state machine: the holdings list arrives and changes,  *)
(* the user picks a sort column and direction, the memo cells follow.        *)

\* a render after `holdings` changed: every memo is computed again
RenderHoldings(hs, field, direction) ==
    LET e == enrichedHoldingsMemo(hs)
        o == sortedHoldingsMemo(e.enriched, field, direction)
    IN  /\ holdings' = e.holdings
        /\ enrichedHoldings' = o.enriched
        /\ sortedHoldings' = o.sorted
        /\ summary' = summaryMemo(e.holdings)

\* the session the dashboard is shown in
DashboardSession ==
    LET u == [id |-> Str("u1"), email |-> Str("ann@example.com")]
    IN  /\ tokenStore = Some("tok123")
        /\ userStore = Some(JSONstringify(u))
        /\ user = Some(u)
        /\ isLoading = FALSE
        /\ restoreRuns = 1
        /\ pending = [i \in Slots |-> "idle"]
        /\ location = "ROUTES.DASHBOARD"
        /\ effects = <<>>
        /\ last = [op |-> "restore"]
        /\ lastLogin = None

HoldingsInit ==
    /\ DashboardSession
    /\ NoCache
    /\ NoDialog
    /\ sortField = "symbol"
    /\ sortDirection = "asc"
    /\ \E hs \in HoldingLists :
          LET e == enrichedHoldingsMemo(hs)
              o == sortedHoldingsMemo(e.enriched, "symbol", "asc")
          IN  /\ holdings = e.holdings
              /\ enrichedHoldings = o.enriched
              /\ sortedHoldings = o.sorted
              /\ summary = summaryMemo(e.holdings)

\* the lists a refetch can bring after the list hs: one holding more, one
\* less, or two neighbours exchanged
Refetched(hs) ==
    { Append(hs, h) : h \in { x \in HoldingPool :
                                /\ Len(hs) < MaxHoldings
                                /\ \A i \in DOMAIN hs : hs[i].id # x.id } }
    \cup { SubSeq(hs, 1, i - 1) \o SubSeq(hs, i + 1, Len(hs)) : i \in DOMAIN hs }
    \cup { [hs EXCEPT ![i] = hs[i + 1], ![i + 1] = hs[i]] : i \in 1..(Len(hs) - 1) }

HoldingsChanged ==
    /\ \E hs \in Refetched(holdings) :
          RenderHoldings(hs, sortField, sortDirection)
    /\ UNCHANGED <<sortField, sortDirection>>
    /\ UNCHANGED <<vars, cvars, dvars>>

\* setSortField / setSortDirection: only the ordering memo is computed again
SortChanged ==
    /\ \E field \in SortFields, direction \in SortDirections :
          /\ <<field, direction>> # <<sortField, sortDirection>>
          /\ sortField' = field
          /\ sortDirection' = direction
          /\ LET o == sortedHoldingsMemo(enrichedHoldings, field, direction)
             IN  /\ enrichedHoldings' = o.enriched
                 /\ sortedHoldings' = o.sorted
    /\ UNCHANGED <<holdings, summary>>
    /\ UNCHANGED <<vars, cvars, dvars>>

HoldingsNext ==
    \/ HoldingsChanged
    \/ SortChanged

HoldingsSpec == HoldingsInit /\ [][HoldingsNext]_allVars

-----------------------------------------------------------------------------
(* The derived flag *)

\* C11: isAuthenticated is a function of the identity alone: in every state
\* it is true exactly when an identity is present, whatever the storage
\* entries hold and whatever operation ran last
C11_IsAuthenticatedIsIdentityPresent ==
    isAuthenticated <=> user # None

\* a restore left a credential in storage and no identity: the flag is false
C11_Witness ==
    /\ last.op = "restore"
    /\ TruthyString(tokenStore)
    /\ user = None
    /\ ~isAuthenticated

-----------------------------------------------------------------------------
(* Enrichment *)

OrZeroOf(x) == IF x = None THEN Zero ELSE x[1]

\* the derived fields of the row x agree with the formulas, read on the
\* row's own fields
RowConsistent(x) ==
    /\ x.currentPrice = OrZeroOf(x.security.currentPrice)
    /\ x.marketValue = fmul(x.totalShares, x.currentPrice)
    /\ x.bookValue = fmul(x.totalShares, OrZeroOf(x.averageCost))
    /\ x.unrealizedGain = fsub(x.marketValue, x.bookValue)

\* C12: every holding of the list has its enriched record, which keeps the
\* holding's fields and has marketValue = totalShares * currentPrice,
\* bookValue = totalShares * (averageCost or 0) and unrealizedGain =
\* marketValue - bookValue, each the one correctly rounded operation and
\* nothing more, currentPrice being security.currentPrice or 0
C12_EnrichedFields ==
    /\ Len(enrichedHoldings) = Len(holdings)
    /\ \A i \in DOMAIN holdings :
          /\ \A k \in DOMAIN holdings[i] : enrichedHoldings[i][k] = holdings[i][k]
          /\ RowConsistent(enrichedHoldings[i])
    /\ \A j \in DOMAIN sortedHoldings : RowConsistent(sortedHoldings[j])

\* 10 shares bought at 100 and priced at 150: 1500, 1000 and a gain of 500;
\* next to it a holding without price and cost
C12_Witness ==
    \E i, j \in DOMAIN enrichedHoldings :
        /\ enrichedHoldings[i].id = "h1"
        /\ enrichedHoldings[i].marketValue = Num(1500)
        /\ enrichedHoldings[i].bookValue = Num(1000)
        /\ enrichedHoldings[i].unrealizedGain = Num(500)
        /\ enrichedHoldings[j].security.currentPrice = None
        /\ enrichedHoldings[j].marketValue = Zero

\* C13: a row whose bookValue is 0 (so every row without averageCost and
\* every row with zero shares) has unrealizedGainPercent exactly 0; a row
\* with bookValue > 0 has unrealizedGain / bookValue; the percent is always a
\* finite number
C13_PercentGuarded ==
    \A i \in DOMAIN enrichedHoldings :
        LET x == enrichedHoldings[i]
        IN  /\ IsFinite(x.unrealizedGainPercent)
            /\ x.averageCost = None => x.bookValue = Zero
            /\ x.totalShares = Zero => x.bookValue = Zero
            /\ x.bookValue = Zero => x.unrealizedGainPercent = Zero
            /\ IsPositive(x.bookValue) =>
                  x.unrealizedGainPercent = fdiv(x.unrealizedGain, x.bookValue)
            /\ x.bookValue = Zero \/ IsPositive(x.bookValue)

\* a row without cost, a row without shares and a row that gained a half
C13_Witness ==
    \E i, j, k \in DOMAIN enrichedHoldings :
        /\ enrichedHoldings[i].averageCost = None
        /\ enrichedHoldings[i].unrealizedGainPercent = Zero
        /\ enrichedHoldings[j].totalShares = Zero
        /\ IsPositive(enrichedHoldings[j].currentPrice)
        /\ enrichedHoldings[j].unrealizedGainPercent = Zero
        /\ enrichedHoldings[k].unrealizedGainPercent = fdiv(Num(1), Num(2))

-----------------------------------------------------------------------------
(* Ordering *)

Reverse(seq) == [i \in 1..Len(seq) |-> seq[Len(seq) + 1 - i]]

\* the sort key of the row x for the column f
KeyOf(f, x) ==
    CASE f = "symbol" -> x.security.symbol
      [] f = "shares" -> x.totalShares
      [] f = "price" -> x.currentPrice
      [] f = "cost" -> OrZeroOf(x.averageCost)
      [] f = "value" -> x.marketValue
      [] f = "gain" -> x.unrealizedGain
      [] f = "gainPercent" -> x.unrealizedGainPercent

KeyLessEq(f, x, y) ==
    IF f = "symbol"
      THEN SymbolRank(KeyOf(f, x)) <= SymbolRank(KeyOf(f, y))
      ELSE ~NumLess(KeyOf(f, y), KeyOf(f, x))

KeyEq(f, x, y) == KeyLessEq(f, x, y) /\ KeyLessEq(f, y, x)

\* where the holding with this id stands in the list
PositionOf(seq, id) == CHOOSE i \in DOMAIN seq : seq[i].id = id

\* two holdings of the list have equal keys for the column f
HasTies(f, seq) ==
    \E i, j \in DOMAIN seq : i < j /\ KeyEq(f, seq[i], seq[j])

\* C14, as claimed: for the column selected (every column is, in some state,
\* with every holdings list) the ascending rows reversed are, element for
\* element, the descending rows, ties or no ties
C14_AscReversedIsDesc ==
    Reverse(deriveAndSort(holdings, sortField, "asc"))
       = deriveAndSort(holdings, sortField, "desc")

\* C14, amended: for the column selected the ascending rows reversed and the
\* descending rows carry equal keys position by position; they are the same
\* list when no two holdings have equal keys, and otherwise differ exactly in
\* that holdings with equal keys stand in input order in the descending rows
\* and in reverse input order in the reversed ascending rows
C14_AscReversedIsDescUpToTies ==
    LET f == sortField
        A == Reverse(deriveAndSort(holdings, f, "asc"))
        D == deriveAndSort(holdings, f, "desc")
    IN  /\ Len(A) = Len(D)
        /\ sortedHoldings = (IF sortDirection = "asc" THEN Reverse(A) ELSE D)
        /\ \A i \in DOMAIN D : KeyEq(f, A[i], D[i])
        /\ ~HasTies(f, enrichedHoldings) => A = D
        /\ \A i, j \in DOMAIN D :
              i < j /\ KeyEq(f, D[i], D[j]) =>
                 /\ PositionOf(holdings, D[i].id) < PositionOf(holdings, D[j].id)
                 /\ PositionOf(A, D[i].id) > PositionOf(A, D[j].id)

\* the table shows three holdings in descending order of a column on which
\* two of them tie: the rows are not the ascending rows reversed
C14_Witness ==
    /\ Len(holdings) = 3
    /\ sortDirection = "desc"
    /\ HasTies(sortField, enrichedHoldings)
    /\ sortedHoldings # Reverse(deriveAndSort(holdings, sortField, "asc"))
    /\ \A i \in DOMAIN sortedHoldings :
          KeyEq(sortField, sortedHoldings[i],
                Reverse(deriveAndSort(holdings, sortField, "asc"))[i])

\* C15: the sort is stable: whatever column and direction is selected, two
\* holdings with equal keys stand in the rows in the order they had in the
\* holdings list
C15_SortIsStable ==
    \A i, j \in DOMAIN enrichedHoldings :
        i < j /\ KeyEq(sortField, enrichedHoldings[i], enrichedHoldings[j]) =>
           PositionOf(sortedHoldings, holdings[i].id)
              < PositionOf(sortedHoldings, holdings[j].id)

\* the rows were reordered by a numeric column, in descending order, and two
\* holdings with equal keys kept their order though their symbols are in
\* the other order
C15_Witness ==
    /\ sortField # "symbol"
    /\ sortDirection = "desc"
    /\ sortedHoldings # enrichedHoldings
    /\ \E i, j \in DOMAIN holdings :
          /\ i < j
          /\ KeyEq(sortField, enrichedHoldings[i], enrichedHoldings[j])
          /\ SymbolRank(holdings[i].security.symbol) < SymbolRank(holdings[j].security.symbol)
          /\ PositionOf(sortedHoldings, holdings[i].id)
                < PositionOf(sortedHoldings, holdings[j].id)

\* C16: whatever column and direction is selected, the rows are a
\* permutation of the enriched holdings, with keys that never decrease from
\* one row to the next for asc and never increase for desc; the key of
\* `cost` is averageCost, 0 when absent
C16_SortedPermutationInKeyOrder ==
    LET S == sortedHoldings
    IN  /\ Len(S) = Len(enrichedHoldings)
        /\ { S[i] : i \in DOMAIN S }
              = { enrichedHoldings[i] : i \in DOMAIN enrichedHoldings }
        /\ \A i, j \in DOMAIN S : i # j => S[i].id # S[j].id
        /\ \A i \in 1..(Len(S) - 1) :
              IF sortDirection = "asc"
                THEN KeyLessEq(sortField, S[i], S[i + 1])
                ELSE KeyLessEq(sortField, S[i + 1], S[i])

\* three rows ordered by cost, the holding without averageCost first, in an
\* order that is not the list's
C16_Witness ==
    /\ Len(sortedHoldings) = 3
    /\ sortField = "cost"
    /\ sortDirection = "asc"
    /\ sortedHoldings[1].averageCost = None
    /\ IsPositive(KeyOf("cost", sortedHoldings[2]))
    /\ NumLess(KeyOf("cost", sortedHoldings[2]), KeyOf("cost", sortedHoldings[3]))
    /\ sortedHoldings # enrichedHoldings

-----------------------------------------------------------------------------
(* Frame, missing values, repeatability *)

\* C17: deriving and sorting leave their inputs as they were: the holdings
\* list is the list that was passed in, still made of the gateway's records,
\* and a change of the sort state leaves the enriched list, element for
\* element and in order, what it was
C17_InputsNotMutated ==
    [][/\ holdings' \in Refetched(holdings) \cup {holdings}
       /\ \A i \in DOMAIN holdings' : holdings'[i] \in HoldingPool
       /\ holdings' = holdings => enrichedHoldings' = enrichedHoldings
       /\ Len(enrichedHoldings') = Len(holdings')
       /\ \A i \in DOMAIN holdings' : enrichedHoldings'[i].id = holdings'[i].id
      ]_allVars

\* the rows stand in another order than the three holdings, which are still
\* in the order they came in
C17_Witness ==
    /\ Len(holdings) = 3
    /\ sortedHoldings # enrichedHoldings
    /\ \A i \in DOMAIN holdings :
          /\ holdings[i] \in HoldingPool
          /\ enrichedHoldings[i].id = holdings[i].id

\* C18: an empty holdings list gives empty enriched and sorted lists; a
\* holding without security.currentPrice or without averageCost is enriched
\* with the missing value as 0, every derived field a finite number, and is a
\* row of the sorted list whatever column and direction is selected
C18_EmptyAndMissingValues ==
    /\ holdings = <<>> => enrichedHoldings = <<>> /\ sortedHoldings = <<>>
    /\ Len(sortedHoldings) = Len(holdings)
    /\ \A i \in DOMAIN enrichedHoldings :
          LET x == enrichedHoldings[i]
          IN  /\ x.security.currentPrice = None =>
                    x.currentPrice = Zero /\ x.marketValue = Zero
              /\ x.averageCost = None =>
                    /\ x.bookValue = Zero
                    /\ x.unrealizedGain = x.marketValue
                    /\ x.unrealizedGainPercent = Zero
              /\ \A k \in DerivedFields : IsFinite(x[k])
              /\ \E j \in DOMAIN sortedHoldings : sortedHoldings[j] = x

\* three rows in descending order of price, last the holding without price
\* and cost, which is not last in the holdings list
C18_Witness ==
    /\ Len(sortedHoldings) = 3
    /\ sortField = "price"
    /\ sortDirection = "desc"
    /\ sortedHoldings[3].security.currentPrice = None
    /\ sortedHoldings[3].averageCost = None
    /\ sortedHoldings[3].currentPrice = Zero
    /\ holdings[3].security.currentPrice # None

\* C19: the rows are a function of the holdings list and the sort state
\* alone, whatever was shown before, and deriving and sorting the rows again
\* with the same column and direction gives the same rows
C19_DeterministicAndIdempotent ==
    /\ sortedHoldings = deriveAndSort(holdings, sortField, sortDirection)
    /\ deriveAndSort(sortedHoldings, sortField, sortDirection) = sortedHoldings

\* rows in descending order of a column on which two holdings tie, in
\* another order than the list's
C19_Witness ==
    /\ Len(holdings) = 3
    /\ sortDirection = "desc"
    /\ HasTies(sortField, enrichedHoldings)
    /\ sortedHoldings # enrichedHoldings
    /\ deriveAndSort(sortedHoldings, sortField, sortDirection) = sortedHoldings

-----------------------------------------------------------------------------
(* The portfolio summary *)

\* the lists with the elements of seq in every order
PermutationsOf(seq) ==
    { [i \in DOMAIN seq |-> seq[p[i]]] : p \in Permutations(DOMAIN seq) }

\* C20, as claimed: the summary is the same for every order of the holdings
\* list and for every column and direction selected in the table
C20_SummaryOrderIndependent ==
    /\ summary = summaryMemo(holdings)
    /\ \A hs \in PermutationsOf(holdings) : summaryMemo(hs) = summary

\* the sum of one field over the rows, added from the first row to the last
RECURSIVE SumOf(_, _)
SumOf(field, rows) ==
    IF rows = <<>> THEN Zero
    ELSE fadd(SumOf(field, SubSeq(rows, 1, Len(rows) - 1)), rows[Len(rows)][field])

\* C21: the dashboard's summary is the reduction over the table's enriched
\* holdings, taken in the order of the list: totalValue the sum of
\* marketValue, totalCost the sum of bookValue, totalGain their difference,
\* totalGainPercent = totalGain / totalCost when totalCost > 0 and else 0;
\* an empty list gives all zeros
C21_SummaryIsReductionOverEnriched ==
    LET totalValue == SumOf("marketValue", enrichedHoldings)
        totalCost == SumOf("bookValue", enrichedHoldings)
    IN  /\ summary.totalValue = totalValue
        /\ summary.totalCost = totalCost
        /\ summary.totalGain = fsub(totalValue, totalCost)
        /\ summary.totalGainPercent =
              (IF IsPositive(totalCost)
                 THEN fdiv(summary.totalGain, totalCost) ELSE Zero)
        /\ holdings = <<>> =>
              summary = [totalValue |-> Zero, totalCost |-> Zero,
                         totalGain |-> Zero, totalGainPercent |-> Zero]

\* AAPL 10 shares bought at 100 and priced 150 with TSLA 5 shares bought at
\* 200 and priced 180: 2400, 2000, 400 and a fifth
C21_Witness ==
    /\ Len(holdings) = 2
    /\ holdings[1].id = "h1"
    /\ holdings[2].id = "h2"
    /\ summary = [totalValue |-> Num(2400), totalCost |-> Num(2000),
                  totalGain |-> Num(400),
                  totalGainPercent |-> fdiv(Num(1), Num(5))]

-----------------------------------------------------------------------------
(* The guarded route; logout against requests in flight *)

\* C26: a ProtectedRoute renders its children only when isLoading is false
\* and isAuthenticated is true; when isLoading is false and isAuthenticated
\* is false it renders a redirect to the login view that carries the
\* attempted location; when isLoading is true it renders the loading page
\* and nothing else
C26_ProtectedRouteRendering ==
    /\ ProtectedRoute.kind = "children" => ~isLoading /\ user # None
    /\ ~isLoading /\ user # None => ProtectedRoute = [kind |-> "children"]
    /\ ~isLoading /\ user = None =>
          ProtectedRoute = [kind |-> "Navigate", to |-> "ROUTES.LOGIN",
                            from |-> location, replace |-> TRUE]
    /\ isLoading => ProtectedRoute = [kind |-> "LoadingPage"]

\* a login is in flight with nobody signed in: the loading page, not the
\* redirect
C26_Witness ==
    /\ last.op = "loginStart"
    /\ isLoading
    /\ user = None
    /\ ProtectedRoute.kind = "LoadingPage"

\* C29, as claimed: a login or register that settles right after a logout,
\* no login or register having been invoked since (so it was in flight when
\* logout ran), stores no credential and sets no identity: the session stays
\* unauthenticated and storage stays cleared
C29_LogoutOutlastsRequestsInFlight ==
    [][last.op = "logout" /\ last'.op \in {"login", "register"} =>
          /\ user' = None
          /\ tokenStore' = None
          /\ userStore' = None
      ]_vars

-----------------------------------------------------------------------------
(* Query keys *)

holdingKeys_all == <<"holdings">>

holdingKeys_lists == holdingKeys_all \o <<"list">>

holdingKeys_list(portfolioId, userId) == holdingKeys_lists \o <<portfolioId, userId>>

holdingKeys_details == holdingKeys_all \o <<"detail">>

holdingKeys_detail(portfolioId, holdingId, userId) ==
    holdingKeys_details \o <<portfolioId, holdingId, userId>>

portfolioKeys_all == <<"portfolios">>

portfolioKeys_lists == portfolioKeys_all \o <<"list">>

portfolioKeys_list(userId) == portfolioKeys_lists \o <<userId>>

portfolioKeys_default(userId) == portfolioKeys_all \o <<"default", userId>>

-----------------------------------------------------------------------------
(* Query hooks: the key a hook caches under and whether it may fetch *)

\* mutant: the holdings hook enabled by the user id alone
useGetPortfolioHoldings_EnabledByUser(portfolioId, userId) ==
    [queryKey |-> holdingKeys_list(portfolioId, userId),
     enabled |-> userId # "",
     staleTime |-> 1]

\* staleTime is kept as: 0 the data is stale at once, 1 it stays fresh
useGetPortfolioHoldings(portfolioId, userId) ==
    [queryKey |-> holdingKeys_list(portfolioId, userId),
     enabled |-> portfolioId # "" /\ userId # "",
     staleTime |-> 1]

useGetHoldingById(holdingId, userId, portfolioId) ==
    [queryKey |-> holdingKeys_detail(holdingId, userId, portfolioId),
     enabled |-> holdingId # "" /\ userId # "" /\ portfolioId # "",
     staleTime |-> 0]

useGetUserPortfolios(userId) ==
    [queryKey |-> portfolioKeys_list(userId),
     enabled |-> userId # "",
     staleTime |-> 1]

useGetDefaultPortfolio(userId) ==
    [queryKey |-> portfolioKeys_default(userId),
     enabled |-> userId # "",
     staleTime |-> 0]

PortfolioIds == {"p1", "p2"}

HoldingIds == {"h1"}

\* what getUserPortfolios can answer
PortfolioListings ==
    { <<>>,
      <<[id |-> "p1", isDefault |-> FALSE]>>,
      <<[id |-> "p1", isDefault |-> FALSE], [id |-> "p2", isDefault |-> TRUE]>>,
      <<[id |-> "p2", isDefault |-> FALSE], [id |-> "p1", isDefault |-> FALSE]>>,
      <<[id |-> "p1", isDefault |-> TRUE], [id |-> "p2", isDefault |-> TRUE]>> }

\* portfolios.find((p) => p.isDefault) || portfolios[0] || null
DefaultPortfolio(portfolios) ==
    IF \E i \in DOMAIN portfolios : portfolios[i].isDefault
      THEN Some(portfolios[CHOOSE i \in DOMAIN portfolios :
                             /\ portfolios[i].isDefault
                             /\ \A j \in DOMAIN portfolios :
                                   portfolios[j].isDefault => i <= j])
    ELSE IF Len(portfolios) > 0 THEN Some(portfolios[1])
    ELSE None

-----------------------------------------------------------------------------
(* Mutation hooks: the keys onSuccess invalidates and the toasts shown *)

\* what a mutation's gateway call settles with; message is
\* error.response?.data?.message
MutationOutcomes ==
    {[ok |-> TRUE, message |-> None]}
    \cup [ok : {FALSE}, message : {None, Some(""), Some("Insufficient shares")}]

\* error.response?.data?.message || fallback
ServerMessageOr(error, fallback) ==
    IF TruthyString(error.message) THEN Str(error.message[1]) ELSE Str(fallback)

MutationVars == [userId : {"u1"}, portfolioId : {"p1"}, holdingId : HoldingIds]

TransactionInvalidations == <<holdingKeys_all, portfolioKeys_all>>

useCreateTransaction(o, v) ==
    IF o.ok
      THEN [invalidate |-> TransactionInvalidations,
            toasts |-> <<Toast("default", "Transaction added",
                               Str("Your transaction has been recorded successfully."))>>]
      ELSE [invalidate |-> <<>>,
            toasts |-> <<Toast("destructive", "Failed to add transaction",
                               ServerMessageOr(o, "Something went wrong"))>>]

useUpdateTransaction(o, v) ==
    IF o.ok
      THEN [invalidate |-> TransactionInvalidations,
            toasts |-> <<Toast("default", "Transaction updated",
                               Str("Changes saved successfully."))>>]
      ELSE [invalidate |-> <<>>,
            toasts |-> <<Toast("destructive", "Failed to update transaction",
                               ServerMessageOr(o, "Something went wrong"))>>]

\* mutant: the invalidations moved from onSuccess to onSettled
useDeleteTransaction_InvalidatesOnSettled(o, v) ==
    IF o.ok
      THEN [invalidate |-> TransactionInvalidations,
            toasts |-> <<Toast("default", "Transaction deleted",
                               Str("The transaction has been removed successfully."))>>]
      ELSE [invalidate |-> TransactionInvalidations,
            toasts |-> <<Toast("destructive", "Failed to delete transaction",
                               ServerMessageOr(o, "Something went wrong"))>>]

useDeleteTransaction(o, v) ==
    IF o.ok
      THEN [invalidate |-> TransactionInvalidations,
            toasts |-> <<Toast("default", "Transaction deleted",
                               Str("The transaction has been removed successfully."))>>]
      ELSE [invalidate |-> <<>>,
            toasts |-> <<Toast("destructive", "Failed to delete transaction",
                               ServerMessageOr(o, "Something went wrong"))>>]

\* the holding hooks have no onError
useCreateHolding(o, v) ==
    IF o.ok
      THEN [invalidate |-> <<holdingKeys_list(v.portfolioId, v.userId)>>,
            toasts |-> <<Toast("default", "Holding Created",
                               Str("The new holding has been created successfully."))>>]
      ELSE [invalidate |-> <<>>, toasts |-> <<>>]

useUpdateHolding(o, v) ==
    IF o.ok
      THEN [invalidate |-> <<holdingKeys_detail(v.portfolioId, v.userId, v.holdingId)>>,
            toasts |-> <<Toast("default", "Portfolio Updated",
                               Str("The portfolio has been updated successfully."))>>]
      ELSE [invalidate |-> <<>>, toasts |-> <<>>]

useDeleteHolding(o, v) ==
    IF o.ok
      THEN [invalidate |-> <<holdingKeys_list(v.portfolioId, v.userId)>>,
            toasts |-> <<Toast("default", "Holding Deleted",
                               Str("The holding has been deleted successfully."))>>]
      ELSE [invalidate |-> <<>>, toasts |-> <<>>]

TransactionHooks == {"useCreateTransaction", "useUpdateTransaction", "useDeleteTransaction"}

HoldingHooks == {"useCreateHolding", "useUpdateHolding", "useDeleteHolding"}

MutationHooks == TransactionHooks \cup HoldingHooks

\* the callbacks of the hook named
useMutation(hook, o, v) ==
    CASE hook = "useCreateTransaction" -> useCreateTransaction(o, v)
      [] hook = "useUpdateTransaction" -> useUpdateTransaction(o, v)
      [] hook = "useDeleteTransaction" -> useDeleteTransaction(o, v)
      [] hook = "useCreateHolding" -> useCreateHolding(o, v)
      [] hook = "useUpdateHolding" -> useUpdateHolding(o, v)
      [] hook = "useDeleteHolding" -> useDeleteHolding(o, v)

-----------------------------------------------------------------------------
(* The query cache: what the data-fetching library does with the hooks *)

NewQuery ==
    [data |-> None, error |-> FALSE, isInvalidated |-> FALSE,
     fetching |-> FALSE, requests |-> 0]

\* the filter of invalidateQueries matches every key the given key begins
IsPrefix(prefix, key) ==
    Len(prefix) <= Len(key) /\ SubSeq(key, 1, Len(prefix)) = prefix

\* mutant: a fetch that never shares the request outstanding
fetch_NoSharing(e, cancelRefetch) ==
    [e EXCEPT !.fetching = TRUE, !.requests = @ + 1]

\* a fetch of the query e: an outstanding request is shared, unless the
\* caller cancels refetches and the query has data: then the outstanding
\* request is dropped by the cache and a new one is issued; the queryFn
\* hands no abort signal to the gateway call, so the dropped request stays
\* outstanding
fetch(e, cancelRefetch) ==
    IF e.fetching
      THEN IF e.data # None /\ cancelRefetch
             THEN [e EXCEPT !.requests = @ + 1]
             ELSE e
      ELSE [e EXCEPT !.fetching = TRUE, !.requests = @ + 1]

\* user?.id || ''
UserId == IF user = None THEN "" ELSE user[1].id[2]

\* the dashboard's `portfolio`: None while undefined or null
PortfolioOf(q) ==
    LET k == portfolioKeys_default(UserId)
    IN  IF k \in DOMAIN q /\ q[k].data # None THEN q[k].data[1] ELSE None

\* portfolio?.id || ''
PortfolioIdOf(q) == IF PortfolioOf(q) = None THEN "" ELSE PortfolioOf(q)[1].id

\* the query hooks DashboardPage calls
DashboardHooks(q) ==
    { useGetDefaultPortfolio(UserId),
      useGetPortfolioHoldings(PortfolioIdOf(q), UserId) }

\* the keys with an enabled observer
ActiveKeys(q) == { h.queryKey : h \in { x \in DashboardHooks(q) : x.enabled } }

\* the dashboard renders over the cache q, having rendered over qOld before:
\* each hook has its query, and a hook that starts to observe a key fetches
\* it when there is no data or the data is stale
Render(qOld, q) ==
    LET hooks == DashboardHooks(q)
        q1 == [k \in DOMAIN q \cup { h.queryKey : h \in hooks } |->
                 IF k \in DOMAIN q THEN q[k] ELSE NewQuery]
    IN  [k \in DOMAIN q1 |->
           IF \E h \in hooks :
                 /\ h.queryKey = k
                 /\ h.enabled
                 /\ k \notin ActiveKeys(qOld)
                 /\ (q1[k].data = None \/ q1[k].isInvalidated \/ h.staleTime = 0)
             THEN fetch(q1[k], FALSE)
             ELSE q1[k]]

\* queryClient.invalidateQueries for each of the keys: every matching query
\* is marked, and refetched (cancelling refetches) when it is active
invalidateQueries(q, keys) ==
    [k \in DOMAIN q |->
       IF \E i \in DOMAIN keys : IsPrefix(keys[i], k)
         THEN IF k \in ActiveKeys(q)
                THEN fetch([q[k] EXCEPT !.isInvalidated = TRUE], TRUE)
                ELSE [q[k] EXCEPT !.isInvalidated = TRUE]
         ELSE q[k]]

\* what the gateway can answer to the queryFn of the key
ResponsesFor(k) ==
    IF k = portfolioKeys_default(UserId)
      THEN { [ok |-> TRUE, data |-> DefaultPortfolio(l), listing |-> l] :
                l \in PortfolioListings }
           \cup {[ok |-> FALSE, data |-> None, listing |-> <<>>]}
      ELSE {[ok |-> TRUE, data |-> Some("rows"), listing |-> <<>>],
            [ok |-> FALSE, data |-> None, listing |-> <<>>]}

\* the query after the request the cache waits for settled with o
Settled(e, o) ==
    IF o.ok
      THEN [data |-> Some(o.data), error |-> FALSE, isInvalidated |-> FALSE,
            fetching |-> FALSE, requests |-> e.requests - 1]
      ELSE [e EXCEPT !.error = TRUE, !.fetching = FALSE, !.requests = @ - 1]

NoVars == [userId |-> "", portfolioId |-> "", holdingId |-> ""]

NoMutation == [hook |-> "idle", vars |-> NoVars]

CacheStep(op, hook, key, ok, v, listing) ==
    [op |-> op, hook |-> hook, key |-> key, ok |-> ok, vars |-> v,
     listing |-> listing]

\* entries earlier screens can have left in the cache
EarlierQueries ==
    { useGetUserPortfolios("u1").queryKey,
      useGetHoldingById("h1", "u1", "p1").queryKey }

CacheInit ==
    /\ DashboardSession
    /\ NoDashboard
    /\ NoDialog
    /\ queries = Render(<<>>, [k \in EarlierQueries |->
                                 [NewQuery EXCEPT !.data = Some(Some("rows"))]])
    /\ mutation = NoMutation
    /\ clast = CacheStep("mount", "", <<>>, TRUE, NoVars, <<>>)

RECURSIVE Outstanding(_, _)
Outstanding(q, keys) ==
    IF keys = {} THEN 0
    ELSE LET k == CHOOSE x \in keys : TRUE
         IN  q[k].requests + Outstanding(q, keys \ {k})

WithinBounds(q) == Outstanding(q, DOMAIN q) <= MaxRequests

\* a request the cache waits for settles
Response ==
    \E k \in DOMAIN queries :
       /\ queries[k].fetching
       /\ \E o \in ResponsesFor(k) :
             /\ queries' = Render(queries, [queries EXCEPT ![k] = Settled(@, o)])
             /\ clast' = CacheStep("response", "", k, o.ok, NoVars, o.listing)
       /\ WithinBounds(queries')
       /\ effects' = <<>>
       /\ UNCHANGED mutation

\* a request the cache has dropped settles: nothing listens
DroppedResponse ==
    \E k \in DOMAIN queries :
       /\ queries[k].requests > (IF queries[k].fetching THEN 1 ELSE 0)
       /\ queries' = [queries EXCEPT ![k].requests = @ - 1]
       /\ clast' = CacheStep("dropped", "", k, TRUE, NoVars, <<>>)
       /\ effects' = <<>>
       /\ UNCHANGED mutation

\* ErrorDisplay's onRetry: refetchPortfolio or refetchHoldings
Retry ==
    LET pk == useGetDefaultPortfolio(UserId).queryKey
        hk == useGetPortfolioHoldings(PortfolioIdOf(queries), UserId).queryKey
        isLoadingPortfolio == queries[pk].fetching /\ queries[pk].data = None
        k == IF queries[pk].error THEN pk ELSE hk
    IN  /\ ~isLoadingPortfolio
        /\ queries[pk].error \/ queries[hk].error
        /\ queries' = [queries EXCEPT ![k] = fetch(@, TRUE)]
        /\ queries' # queries
        /\ WithinBounds(queries')
        /\ clast' = CacheStep("retry", "", k, TRUE, NoVars, <<>>)
        /\ effects' = <<>>
        /\ UNCHANGED mutation

\* mutate / mutateAsync of one of the six hooks
MutateStart ==
    \E hook \in MutationHooks, v \in MutationVars :
       /\ mutation = NoMutation
       /\ mutation' = [hook |-> hook, vars |-> v]
       /\ clast' = CacheStep("mutate", hook, <<>>, TRUE, v, <<>>)
       /\ effects' = <<>>
       /\ UNCHANGED queries

\* the mutation's gateway call settles: onSuccess or onError runs
MutateSettle ==
    \E o \in MutationOutcomes :
       /\ mutation # NoMutation
       /\ LET m == mutation
              r == useMutation(m.hook, o, m.vars)
          IN  /\ queries' = Render(queries, invalidateQueries(queries, r.invalidate))
              /\ effects' = r.toasts
              /\ clast' = CacheStep("settle", m.hook, <<>>, o.ok, m.vars, <<>>)
       /\ WithinBounds(queries')
       /\ mutation' = NoMutation

CacheFrame ==
    UNCHANGED <<tokenStore, userStore, user, isLoading, restoreRuns, pending,
                location, last, lastLogin, hvars, dvars>>

CacheNext ==
    \/ Response /\ CacheFrame
    \/ DroppedResponse /\ CacheFrame
    \/ Retry /\ CacheFrame
    \/ MutateStart /\ CacheFrame
    \/ MutateSettle /\ CacheFrame

CacheSpec == CacheInit /\ [][CacheNext]_allVars

-----------------------------------------------------------------------------
(* Claims about the cache *)

Invalidated(q) == { k \in DOMAIN q : q[k].isInvalidated }

\* C22: for each of the six mutations, no cache key is invalidated before
\* the mutation's network call has resolved successfully: a key becomes
\* invalidated only in the step in which a mutation settles successfully;
\* and when the call fails nothing is invalidated and every cached entry is
\* exactly as it was before the call settled
C22_InvalidationOnlyAfterSuccess ==
    [][ /\ ~(Invalidated(queries') \subseteq Invalidated(queries))
           => clast'.op = "settle" /\ clast'.ok
        /\ clast'.op = "mutate" => queries' = queries
        /\ (clast'.op = "settle" /\ ~clast'.ok) => queries' = queries
      ]_allVars

\* a deleteTransaction has failed while the holdings list of its portfolio
\* was cached, and the entry is still fresh
C22_Witness ==
    LET k == useGetPortfolioHoldings(clast.vars.portfolioId, clast.vars.userId).queryKey
    IN  /\ clast.op = "settle"
        /\ ~clast.ok
        /\ clast.hook = "useDeleteTransaction"
        /\ k \in DOMAIN queries
        /\ queries[k].data # None
        /\ ~queries[k].isInvalidated

\* C23: after each of the six mutations resolves successfully, both the
\* holdings-list entry of the affected portfolio and the portfolio-list
\* entry of the user are marked stale
C23_SuccessInvalidatesDependents ==
    (clast.op = "settle" /\ clast.ok) =>
       \A k \in { useGetPortfolioHoldings(clast.vars.portfolioId,
                                          clast.vars.userId).queryKey,
                  useGetUserPortfolios(clast.vars.userId).queryKey }
                \cap DOMAIN queries :
          queries[k].isInvalidated

\* C24: every failed create/update/delete mutation, of a transaction or of a
\* holding, produces a notification (carrying the server's message or the
\* generic fallback)
C24_FailureIsNotified ==
    (clast.op = "settle" /\ ~clast.ok) =>
       \E i \in DOMAIN effects :
          /\ effects[i].kind = "toast"
          /\ effects[i].variant = "destructive"
          /\ effects[i].description
                \in {Str("Insufficient shares"), Str("Something went wrong")}

\* C25: at any time at most one request is outstanding for each cache key
C25_OneRequestPerKey ==
    \A k \in DOMAIN queries : queries[k].requests <= 1

IsHoldingsList(k) == Len(k) = 4 /\ SubSeq(k, 1, 2) = holdingKeys_lists

\* the first portfolio flagged isDefault, else the first, else none
FlaggedElseFirst(l) ==
    LET flagged == { i \in DOMAIN l : l[i].isDefault }
    IN  IF flagged # {}
          THEN Some(l[CHOOSE i \in flagged : \A j \in flagged : i <= j])
          ELSE IF l # <<>> THEN Some(l[1]) ELSE None

C30_UpdateInvalidatesCachedDetail ==
    (clast.op = "settle" /\ clast.ok /\ clast.hook = "useUpdateHolding") =>
       LET k == useGetHoldingById(clast.vars.holdingId, clast.vars.userId,
                                  clast.vars.portfolioId).queryKey
       IN  k \in DOMAIN queries => queries[k].isInvalidated

-----------------------------------------------------------------------------
(* AddTransactionDialog *)

\* the session after a logout, before the dashboard is unmounted
SignedOutSession ==
    /\ tokenStore = None
    /\ userStore = None
    /\ user = None
    /\ isLoading = FALSE
    /\ restoreRuns = 1
    /\ pending = [i \in Slots |-> "idle"]
    /\ location = "ROUTES.LOGIN"
    /\ effects = <<>>
    /\ last = [op |-> "logout"]
    /\ lastLogin = None

\* a gateway call of the submission and how it settled
Call(name, result) == [name |-> name, result |-> result]

\* what findHoldingBySecurityId resolves to: no holding, or one
Findings == {None, Some("h1")}

\* mutant: a holding is created whatever the search found
AfterFind_AlwaysCreates(holding) == "createHolding"

\* `if (!holding)`: the call that follows the search
AfterFind(holding) ==
    IF holding = None THEN "createHolding" ELSE "createTransaction"

\* the catch block: console.error only
onSubmit_catch(d) == [d EXCEPT !.step = "idle", !.op = "failed"]

SettleLast(calls, result) ==
    [calls EXCEPT ![Len(calls)] = Call(@.name, result)]

\* the submission goes on to the call named
Proceed(d, name, holding) ==
    [d EXCEPT !.calls = Append(SettleLast(d.calls, "ok"), Call(name, "pending")),
              !.step = name,
              !.holding = holding,
              !.op = "proceed"]

DialogInit ==
    /\ DashboardSession \/ SignedOutSession
    /\ NoDashboard
    /\ NoCache
    /\ dialog = [open |-> FALSE, form |-> "defaultValues",
                 selectedSecurity |-> FALSE, step |-> "idle",
                 calls |-> <<>>, holding |-> None, op |-> "mount"]

\* <Dialog onOpenChange={setOpen}>
onOpenChange ==
    \E b \in BOOLEAN :
       /\ dialog.open # b
       /\ dialog' = [dialog EXCEPT !.open = b, !.op = "openChange"]
       /\ effects' = <<>>

\* handleSecuritySelect: the security found by the search fills the symbol
handleSecuritySelect ==
    /\ dialog.open
    /\ dialog' = [dialog EXCEPT !.selectedSecurity = TRUE, !.form = "filled",
                                !.op = "select"]
    /\ effects' = <<>>

\* the symbol is typed into the form
FormInput ==
    /\ dialog.open
    /\ dialog.form = "defaultValues"
    /\ dialog' = [dialog EXCEPT !.form = "filled", !.op = "input"]
    /\ effects' = <<>>

\* form.handleSubmit(onSubmit) with valid values, up to the first await
onSubmit ==
    /\ dialog.open
    /\ dialog.form = "filled"
    /\ dialog.step = "idle"
    /\ dialog' =
         IF user = None
           THEN [dialog EXCEPT !.calls = <<>>, !.holding = None,
                               !.op = "notAuthenticated"]
           ELSE [dialog EXCEPT !.calls = <<Call("getOrCreateSecurity", "pending")>>,
                               !.step = "getOrCreateSecurity",
                               !.holding = None,
                               !.op = "submit"]
    /\ effects' = <<>>

\* the call awaited resolves: onSubmit runs on to the next await or its end
onSubmit_resolved ==
    /\ dialog.step # "idle"
    /\ \/ /\ dialog.step = "getOrCreateSecurity"
          /\ dialog' = Proceed(dialog, "findHoldingBySecurityId", None)
          /\ effects' = <<>>
       \/ /\ dialog.step = "findHoldingBySecurityId"
          /\ \E h \in Findings : dialog' = Proceed(dialog, AfterFind(h), h)
          /\ effects' = <<>>
       \/ /\ dialog.step = "createHolding"
          /\ dialog' = Proceed(dialog, "createTransaction", Some("h1"))
          /\ effects' = <<>>
       \/ /\ dialog.step = "createTransaction"
          /\ dialog' = [dialog EXCEPT !.calls = SettleLast(@, "ok"),
                                      !.step = "idle",
                                      !.open = FALSE,
                                      !.form = "defaultValues",
                                      !.selectedSecurity = FALSE,
                                      !.op = "done"]
          /\ effects' = useCreateTransaction([ok |-> TRUE, message |-> None],
                                             NoVars).toasts

\* the call awaited rejects: control passes to the catch block
onSubmit_rejected ==
    /\ dialog.step # "idle"
    /\ dialog' = onSubmit_catch([dialog EXCEPT !.calls = SettleLast(@, "failed")])
    /\ \E o \in MutationOutcomes :
          /\ ~o.ok
          /\ effects' = IF dialog.step = "createTransaction"
                          THEN useCreateTransaction(o, NoVars).toasts
                          ELSE <<>>

DialogFrame ==
    UNCHANGED <<tokenStore, userStore, user, isLoading, restoreRuns, pending,
                location, last, lastLogin, hvars, cvars>>

DialogNext ==
    \/ onOpenChange /\ DialogFrame
    \/ handleSecuritySelect /\ DialogFrame
    \/ FormInput /\ DialogFrame
    \/ onSubmit /\ DialogFrame
    \/ onSubmit_resolved /\ DialogFrame
    \/ onSubmit_rejected /\ DialogFrame

DialogSpec == DialogInit /\ [][DialogNext]_allVars

CallNames(calls) == [i \in DOMAIN calls |-> calls[i].name]

\* the two orders a submission can call the gateway in
CallOrders ==
    { <<"getOrCreateSecurity", "findHoldingBySecurityId", "createHolding",
        "createTransaction">>,
      <<"getOrCreateSecurity", "findHoldingBySecurityId", "createTransaction">> }

\* C28: a submission calls the gateway in the order get-or-create security,
\* find holding, create holding (only when the search found none), create
\* transaction; every call but the last has succeeded when the next one
\* starts; the steps of a submission close the dialog and reset the form
\* only when create transaction has succeeded, and then they do; when a call
\* fails no later call starts and the dialog and the form stay as they are;
\* with no session identity a submission makes no call
C28_SubmissionOrder ==
    [][ LET d == dialog'
            names == CallNames(d.calls)
        IN  /\ \E order \in CallOrders :
                  /\ Len(names) <= Len(order)
                  /\ names = SubSeq(order, 1, Len(names))
            /\ \A i \in DOMAIN d.calls :
                  i < Len(d.calls) => d.calls[i].result = "ok"
            /\ d.op \in {"submit", "proceed", "failed", "notAuthenticated"}
                  => /\ d.open = dialog.open
                     /\ d.form = dialog.form
                     /\ d.selectedSecurity = dialog.selectedSecurity
            /\ d.op = "done"
                  => /\ dialog.step = "createTransaction"
                     /\ d.calls[Len(d.calls)] = Call("createTransaction", "ok")
                     /\ ~d.open
                     /\ d.form = "defaultValues"
                     /\ ~d.selectedSecurity
            /\ d.op = "failed"
                  => /\ d.calls[Len(d.calls)].result = "failed"
                     /\ d.step = "idle"
            /\ d.op = "proceed"
                  => /\ Len(d.calls) = Len(dialog.calls) + 1
                     /\ d.calls[Len(d.calls)] = Call(d.step, "pending")
                     /\ d.step = "createHolding"
                           <=> (dialog.step = "findHoldingBySecurityId"
                                  /\ d.holding = None)
                     /\ d.step = "createTransaction" => d.holding # None
            /\ (d.op \in {"submit", "notAuthenticated"})
                  => (user = None <=> d.calls = <<>>)
      ]_allVars

\* a submission that found no holding has created one and then the
\* transaction; the dialog is closed and the form is reset
C28_Witness ==
    /\ dialog.op = "done"
    /\ CallNames(dialog.calls) =
         <<"getOrCreateSecurity", "findHoldingBySecurityId", "createHolding",
           "createTransaction">>
    /\ \A i \in DOMAIN dialog.calls : dialog.calls[i].result = "ok"
    /\ ~dialog.open
    /\ dialog.form = "defaultValues"

====
